---------------------------- MODULE Spec2Model ----------------------------
(***************************************************************************)
(* Model of openpype/hosts/max/api/lib.py: the user-property codec         *)
(* (imprint / read), the attribute scanner (lsattr) and the namespace      *)
(* allocator (unique_namespace).                                           *)
(*                                                                         *)
(* Text is a sequence of one-character strings, so that split, strip,      *)
(* startswith, json.dumps and json.loads are computed character by         *)
(* character as Python computes them.  A Python value is a tagged record   *)
(* [t |-> tag, v |-> payload]:                                             *)
(*    "none"  None            "bool"  True / False      "num"  an int      *)
(*    "str"   text            "list"  sequence of values                   *)
(*    "dict"  sequence of <<key text, value>> in insertion order           *)
(***************************************************************************)
EXTENDS Integers, Sequences, FiniteSets, TLC

VARIABLES
    props,      \* the scene: node name |-> text of its user-property buffer
    children,   \* the scene tree: node name |-> sequence of child names
    userProp,   \* what rt.GetUserProp(node, attr) yields for the scanned attr
    base,       \* history: the buffers the scene started with
    written,    \* history: node |-> key |-> value last imprinted (or None)
    owner,      \* history: master container name |-> namespace it was made for
    log,        \* the last operation: its name, arguments and return value
    holding,    \* caller |-> where it stands: idle, or holding a namespace
    events      \* history: the calls and creations of the callers, in order

vars ==
    <<props, children, userProp, base, written, owner, log, holding, events>>

-----------------------------------------------------------------------------
(* Python values *)

None == [t |-> "none", v |-> 0]
PyBool(b) == [t |-> "bool", v |-> b]
PyNum(n) == [t |-> "num", v |-> n]
PyStr(s) == [t |-> "str", v |-> s]
PyList(s) == [t |-> "list", v |-> s]
PyDict(s) == [t |-> "dict", v |-> s]

\* Python truthiness (bool(x)) of a value
Truthy(x) ==
    CASE x.t = "none" -> FALSE
      [] x.t = "bool" -> x.v
      [] x.t = "num"  -> x.v # 0
      [] OTHER        -> x.v # <<>>

\* Python ==, on the values the host returns for a property (scalars)
PyEq(x, y) ==
    CASE x.t = y.t -> x.v = y.v
      [] x.t = "bool" /\ y.t = "num" -> (IF x.v THEN 1 ELSE 0) = y.v
      [] x.t = "num" /\ y.t = "bool" -> x.v = (IF y.v THEN 1 ELSE 0)
      [] OTHER -> FALSE

-----------------------------------------------------------------------------
(* str methods *)

Whitespace == {" ", "\t", "\r", "\n"}
CRLF == <<"\r", "\n">>
EQ == <<"=">>
JSON_PREFIX == <<"J", "S", "O", "N", ":", ":">>
TrueText == <<"t", "r", "u", "e">>
FalseText == <<"f", "a", "l", "s", "e">>
NullText == <<"n", "u", "l", "l">>
InstanceNode ==
    <<"i", "n", "s", "t", "a", "n", "c", "e", "_", "n", "o", "d", "e">>

\* s[i:] with a 1-based i
From(s, i) == SubSeq(s, i, Len(s))

\* s.startswith(p, i-1)
StartsAt(s, p, i) ==
    /\ i + Len(p) - 1 <= Len(s)
    /\ SubSeq(s, i, i + Len(p) - 1) = p

StartsWith(s, p) == StartsAt(s, p, 1)
EndsWith(s, p) == Len(p) <= Len(s) /\ From(s, Len(s) - Len(p) + 1) = p

RECURSIVE LStrip(_, _)
LStrip(s, chars) ==
    IF s # <<>> /\ Head(s) \in chars THEN LStrip(Tail(s), chars) ELSE s

RECURSIVE RStrip(_, _)
RStrip(s, chars) ==
    IF s # <<>> /\ s[Len(s)] \in chars
    THEN RStrip(SubSeq(s, 1, Len(s) - 1), chars)
    ELSE s

\* s.strip() and s.strip(chars)
StripChars(s, chars) == RStrip(LStrip(s, chars), chars)
Strip(s) == StripChars(s, Whitespace)

\* s.split(sep): every occurrence of sep cuts, from the left
RECURSIVE SplitAcc(_, _, _, _)
SplitAcc(s, sep, i, cur) ==
    IF i > Len(s) THEN <<cur>>
    ELSE IF StartsAt(s, sep, i)
         THEN <<cur>> \o SplitAcc(s, sep, i + Len(sep), <<>>)
         ELSE SplitAcc(s, sep, i + 1, Append(cur, s[i]))

Split(s, sep) == SplitAcc(s, sep, 1, <<>>)

\* sep.join(parts)
RECURSIVE Join(_, _)
Join(parts, sep) ==
    IF parts = <<>> THEN <<>>
    ELSE IF Len(parts) = 1 THEN parts[1]
    ELSE parts[1] \o sep \o Join(Tail(parts), sep)

\* the index of the last occurrence of the character c in s, 0 when absent
RECURSIVE RFind(_, _, _)
RFind(s, c, i) ==
    IF i = 0 THEN 0 ELSE IF s[i] = c THEN i ELSE RFind(s, c, i - 1)

DigitChars == <<"0", "1", "2", "3", "4", "5", "6", "7", "8", "9">>
DigitSet == {DigitChars[i] : i \in 1..10}
DigitValue(c) == (CHOOSE i \in 1..10 : DigitChars[i] = c) - 1

\* str(n) for an int n
RECURSIVE NatText(_)
NatText(n) ==
    IF n < 10 THEN <<DigitChars[n + 1]>>
    ELSE NatText(n \div 10) \o <<DigitChars[(n % 10) + 1]>>

IntText(n) == IF n < 0 THEN <<"-">> \o NatText(0 - n) ELSE NatText(n)

-----------------------------------------------------------------------------
(* json.dumps, with Python's default separators ", " and ": " *)

EscapeChar(c) ==
    CASE c = "\"" -> <<"\\", "\"">>
      [] c = "\\" -> <<"\\", "\\">>
      [] c = "\n" -> <<"\\", "n">>
      [] c = "\r" -> <<"\\", "r">>
      [] c = "\t" -> <<"\\", "t">>
      [] OTHER    -> <<c>>

RECURSIVE EscapeText(_)
EscapeText(s) ==
    IF s = <<>> THEN <<>> ELSE EscapeChar(Head(s)) \o EscapeText(Tail(s))

DumpsStr(s) == <<"\"">> \o EscapeText(s) \o <<"\"">>

RECURSIVE Dumps(_)
Dumps(x) ==
    CASE x.t = "none" -> NullText
      [] x.t = "bool" -> (IF x.v THEN TrueText ELSE FalseText)
      [] x.t = "num"  -> IntText(x.v)
      [] x.t = "str"  -> DumpsStr(x.v)
      [] x.t = "list" ->
            <<"[">>
            \o Join([i \in 1..Len(x.v) |-> Dumps(x.v[i])], <<",", " ">>)
            \o <<"]">>
      [] x.t = "dict" ->
            <<"{">>
            \o Join([i \in 1..Len(x.v) |->
                        DumpsStr(x.v[i][1]) \o <<":", " ">> \o Dumps(x.v[i][2])],
                    <<",", " ">>)
            \o <<"}">>

-----------------------------------------------------------------------------
(* json.loads: Python's scanner, on integers, strings, literals, arrays    *)
(* and objects.  A parse yields [ok, val, pos]: pos is the next unread     *)
(* index.  ok = FALSE stands for json.JSONDecodeError.                     *)

JsonWs == {" ", "\t", "\n", "\r"}
ParseFail == [ok |-> FALSE, val |-> None, pos |-> 0]
ParseOk(x, i) == [ok |-> TRUE, val |-> x, pos |-> i]

RECURSIVE SkipWs(_, _)
SkipWs(s, i) ==
    IF i <= Len(s) /\ s[i] \in JsonWs THEN SkipWs(s, i + 1) ELSE i

\* a string body, i just past the opening quote (strict: no control chars)
RECURSIVE ParseString(_, _, _)
ParseString(s, i, acc) ==
    IF i > Len(s) THEN ParseFail
    ELSE IF s[i] = "\"" THEN ParseOk(acc, i + 1)
    ELSE IF s[i] \in {"\n", "\r", "\t"} THEN ParseFail
    ELSE IF s[i] = "\\"
         THEN IF i + 1 > Len(s) THEN ParseFail
              ELSE CASE s[i + 1] = "\"" -> ParseString(s, i + 2, Append(acc, "\""))
                     [] s[i + 1] = "\\" -> ParseString(s, i + 2, Append(acc, "\\"))
                     [] s[i + 1] = "/"  -> ParseString(s, i + 2, Append(acc, "/"))
                     [] s[i + 1] = "n"  -> ParseString(s, i + 2, Append(acc, "\n"))
                     [] s[i + 1] = "r"  -> ParseString(s, i + 2, Append(acc, "\r"))
                     [] s[i + 1] = "t"  -> ParseString(s, i + 2, Append(acc, "\t"))
                     [] OTHER -> ParseFail
         ELSE ParseString(s, i + 1, Append(acc, s[i]))

\* the digits of [1-9]\d* from i on, as a number
RECURSIVE ParseDigits(_, _, _)
ParseDigits(s, i, acc) ==
    IF i <= Len(s) /\ s[i] \in DigitSet
    THEN ParseDigits(s, i + 1, acc * 10 + DigitValue(s[i]))
    ELSE ParseOk(acc, i)

\* -?(0|[1-9]\d*)
ParseInt(s, i) ==
    LET neg == s[i] = "-"
        j == IF neg THEN i + 1 ELSE i
    IN  IF j > Len(s) \/ s[j] \notin DigitSet THEN ParseFail
        ELSE LET r == IF s[j] = "0" THEN ParseOk(0, j + 1)
                      ELSE ParseDigits(s, j, 0)
             IN  ParseOk(PyNum(IF neg THEN 0 - r.val ELSE r.val), r.pos)

\* dict[key] = value: an existing key keeps its place and takes the value
DictSet(pairs, k, x) ==
    IF \E i \in 1..Len(pairs) : pairs[i][1] = k
    THEN [i \in 1..Len(pairs) |->
            IF pairs[i][1] = k THEN <<k, x>> ELSE pairs[i]]
    ELSE Append(pairs, <<k, x>>)

RECURSIVE ParseValue(_, _)
RECURSIVE ParseElems(_, _, _)
RECURSIVE ParseMembers(_, _, _)

\* scan_once(s, i-1)
ParseValue(s, i) ==
    IF i > Len(s) THEN ParseFail
    ELSE IF s[i] = "\""
         THEN LET r == ParseString(s, i + 1, <<>>)
              IN  IF r.ok THEN ParseOk(PyStr(r.val), r.pos) ELSE ParseFail
    ELSE IF s[i] = "{"
         THEN LET j == SkipWs(s, i + 1)
              IN  IF j > Len(s) THEN ParseFail
                  ELSE IF s[j] = "}" THEN ParseOk(PyDict(<<>>), j + 1)
                  ELSE ParseMembers(s, j, <<>>)
    ELSE IF s[i] = "["
         THEN LET j == SkipWs(s, i + 1)
              IN  IF j > Len(s) THEN ParseFail
                  ELSE IF s[j] = "]" THEN ParseOk(PyList(<<>>), j + 1)
                  ELSE ParseElems(s, j, <<>>)
    ELSE IF StartsAt(s, NullText, i) THEN ParseOk(None, i + 4)
    ELSE IF StartsAt(s, TrueText, i) THEN ParseOk(PyBool(TRUE), i + 4)
    ELSE IF StartsAt(s, FalseText, i) THEN ParseOk(PyBool(FALSE), i + 5)
    ELSE IF s[i] \in DigitSet \cup {"-"} THEN ParseInt(s, i)
    ELSE ParseFail

\* JSONArray: i at the first character of an element
ParseElems(s, i, acc) ==
    LET r == ParseValue(s, i)
    IN  IF ~r.ok THEN ParseFail
        ELSE LET j == SkipWs(s, r.pos)
                 items == Append(acc, r.val)
             IN  IF j > Len(s) THEN ParseFail
                 ELSE IF s[j] = "]" THEN ParseOk(PyList(items), j + 1)
                 ELSE IF s[j] = "," THEN ParseElems(s, SkipWs(s, j + 1), items)
                 ELSE ParseFail

\* JSONObject: i at the opening quote of a key
ParseMembers(s, i, acc) ==
    IF i > Len(s) \/ s[i] # "\"" THEN ParseFail
    ELSE LET k == ParseString(s, i + 1, <<>>)
         IN  IF ~k.ok THEN ParseFail
             ELSE LET c == SkipWs(s, k.pos)
                  IN  IF c > Len(s) \/ s[c] # ":" THEN ParseFail
                      ELSE LET r == ParseValue(s, SkipWs(s, c + 1))
                           IN  IF ~r.ok THEN ParseFail
                               ELSE LET j == SkipWs(s, r.pos)
                                        pairs == DictSet(acc, k.val, r.val)
                                    IN  IF j > Len(s) THEN ParseFail
                                        ELSE IF s[j] = "}"
                                             THEN ParseOk(PyDict(pairs), j + 1)
                                        ELSE IF s[j] = ","
                                             THEN ParseMembers(s, SkipWs(s, j + 1), pairs)
                                        ELSE ParseFail

\* json.loads(s): one value, whitespace around it, nothing after it
Loads(s) ==
    LET r == ParseValue(s, SkipWs(s, 1))
    IN  IF r.ok /\ SkipWs(s, r.pos) = Len(s) + 1 THEN r ELSE ParseFail

-----------------------------------------------------------------------------
(* The host's property store (pymxs runtime): one text buffer per node,    *)
(* lines key=value joined by CR LF, one line per key.                      *)

\* the text the host stores for a scalar: MAXScript prints booleans as
\* true / false and numbers in decimal
HostText(x) ==
    CASE x.t = "bool" -> (IF x.v THEN TrueText ELSE FalseText)
      [] x.t = "num"  -> IntText(x.v)
      [] OTHER        -> x.v

BufferLines(buf) == IF buf = <<>> THEN <<>> ELSE Split(buf, CRLF)

\* whether the host takes `line` to be the line of property `key`
HoldsKey(line, key) ==
    LET parts == Split(line, EQ)
    IN  Len(parts) >= 2 /\ Strip(parts[1]) = key

\* rt.SetUserProp(node, key, x): the key's line is rewritten in place, a
\* new key's line is appended
SetUserProp(buf, key, x) ==
    LET lines == BufferLines(buf)
        line == key \o EQ \o HostText(x)
        hit == {i \in 1..Len(lines) : HoldsKey(lines[i], key)}
    IN  Join(IF hit = {} THEN Append(lines, line)
             ELSE [i \in 1..Len(lines) |->
                     IF i \in hit THEN line ELSE lines[i]],
             CRLF)

-----------------------------------------------------------------------------
(* imprint and read *)

\* a Python dict with text keys, as a function; {} is the empty function
EmptyDict == <<>>
DictPut(d, k, x) == [j \in DOMAIN d \cup {k} |-> IF j = k THEN x ELSE d[j]]
DictGet(d, k) == IF k \in DOMAIN d THEN d[k] ELSE None

\* the body of imprint's loop, for one item of data
ImprintItem(buf, k, x) ==
    IF x.t \in {"dict", "list"}
    THEN SetUserProp(buf, k, PyStr(JSON_PREFIX \o Dumps(x)))
    ELSE SetUserProp(buf, k, x)

\* imprint's loop over data.items(), data a sequence of <<key, value>>
RECURSIVE ImprintItems(_, _)
ImprintItems(buf, data) ==
    IF data = <<>> THEN buf
    ELSE ImprintItems(ImprintItem(buf, data[1][1], data[1][2]), Tail(data))

\* mutant of ImprintScene: the call replaces the buffer instead of merging
ImprintSceneReplacing(scene, node_name, data) ==
    IF node_name \notin DOMAIN scene THEN scene
    ELSE [scene EXCEPT ![node_name] = ImprintItems(<<>>, data)]

\* imprint(node_name, data): the scene after the call, and what it returns
ImprintScene(scene, node_name, data) ==
    IF node_name \notin DOMAIN scene THEN scene
    ELSE [scene EXCEPT ![node_name] = ImprintItems(@, data)]

ImprintReturn(scene, node_name) == node_name \in DOMAIN scene

\* mutant of ReadLine: the texts true and false are not converted
ReadLineNoBoolean(data, line) ==
    LET parts == Split(line, EQ)
    IN  IF Len(parts) # 2 THEN data
        ELSE LET text == Strip(parts[2])
                 parsed == Loads(From(text, Len(JSON_PREFIX) + 1))
                 value == IF StartsWith(text, JSON_PREFIX) /\ parsed.ok
                          THEN parsed.val
                          ELSE PyStr(text)
             IN  DictPut(data, Strip(parts[1]), value)

\* mutant of ReadLine: a marked value that does not parse drops the line
ReadLineDroppingBadJson(data, line) ==
    LET parts == Split(line, EQ)
    IN  IF Len(parts) # 2 THEN data
        ELSE LET text == Strip(parts[2])
                 parsed == Loads(From(text, Len(JSON_PREFIX) + 1))
                 value == IF StartsWith(text, JSON_PREFIX)
                          THEN parsed.val
                          ELSE PyStr(text)
                 final == IF value.t = "str" /\ value.v = TrueText
                              THEN PyBool(TRUE)
                          ELSE IF value.t = "str" /\ value.v = FalseText
                              THEN PyBool(FALSE)
                          ELSE value
             IN  IF StartsWith(text, JSON_PREFIX) /\ ~parsed.ok THEN data
                 ELSE DictPut(data, Strip(parts[1]), final)

\* mutant of ReadLine: the line is cut at its first "=" only
ReadLineFirstSeparator(data, line) ==
    LET parts == Split(line, EQ)
    IN  IF Len(parts) < 2 THEN data
        ELSE LET text == Strip(Join(Tail(parts), EQ))
                 parsed == Loads(From(text, Len(JSON_PREFIX) + 1))
                 value == IF StartsWith(text, JSON_PREFIX) /\ parsed.ok
                          THEN parsed.val
                          ELSE PyStr(text)
                 final == IF value.t = "str" /\ value.v = TrueText
                              THEN PyBool(TRUE)
                          ELSE IF value.t = "str" /\ value.v = FalseText
                              THEN PyBool(FALSE)
                          ELSE value
             IN  DictPut(data, Strip(parts[1]), final)

\* read's loop body: one line of the buffer, folded into data
ReadLine(data, line) ==
    LET parts == Split(line, EQ)
    IN  IF Len(parts) # 2 THEN data
        ELSE LET text == Strip(parts[2])
                 parsed == Loads(From(text, Len(JSON_PREFIX) + 1))
                 value == IF StartsWith(text, JSON_PREFIX) /\ parsed.ok
                          THEN parsed.val
                          ELSE PyStr(text)
                 final == IF value.t = "str" /\ value.v = TrueText
                              THEN PyBool(TRUE)
                          ELSE IF value.t = "str" /\ value.v = FalseText
                              THEN PyBool(FALSE)
                          ELSE value
             IN  DictPut(data, Strip(parts[1]), final)

RECURSIVE ReadLines(_, _)
ReadLines(data, lines) ==
    IF lines = <<>> THEN data
    ELSE ReadLines(ReadLine(data, Head(lines)), Tail(lines))

\* mutant of Read: instance_node is set only when the buffer does not hold it
ReadKeepingStored(name, buf) ==
    LET data == ReadLines(EmptyDict, Split(buf, CRLF))
    IN  IF buf = <<>> THEN EmptyDict
        ELSE IF InstanceNode \in DOMAIN data THEN data
        ELSE DictPut(data, InstanceNode, PyStr(name))

\* read(container), container a node called `name` whose buffer is `buf`
Read(name, buf) ==
    IF buf = <<>> THEN EmptyDict
    ELSE DictPut(ReadLines(EmptyDict, Split(buf, CRLF)),
                 InstanceNode, PyStr(name))

-----------------------------------------------------------------------------
(* The codec's state machine: one container in the scene, whose buffer     *)
(* starts with lines written by the host's property dialog or by other     *)
(* tools, then any sequence of imprint and read calls.                     *)

MaxLines == 1      \* lines in the buffer the scene starts with

Box == <<"b", "o", "x">>     \* the container's name
Gone == <<"n", "o">>         \* a name rt.GetNodeByName does not resolve

KeyA == <<"a">>
KeyB == <<"b">>

\* lines a buffer may start with, each with a key of its own
ForeignLines == <<
    <<"a", " ", "=", " ", "t", "r", "u", "e">>,
    <<"d", "=", "J", "S", "O", "N", ":", ":", "[", "1">>,
    <<"j", "u", "n", "k">>,
    <<"e", "=", "x", "=", "y">>,
    InstanceNode \o <<"=", "z">>,
    <<"f", "=", "J", "S", "O", "N", ":", ":", "\"", "t", "r", "u", "e", "\"">>
>>

RECURSIVE PickLines(_, _)
PickLines(S, i) ==
    IF i > Len(ForeignLines) THEN <<>>
    ELSE (IF i \in S THEN <<ForeignLines[i]>> ELSE <<>>) \o PickLines(S, i + 1)

InitialBuffers ==
    {Join(PickLines(S, 1), CRLF) :
        S \in {T \in SUBSET (1..Len(ForeignLines)) : Cardinality(T) <= MaxLines}}

\* [1, {"k": "x"}]
Nested == PyList(<<PyNum(1), PyDict(<< <<<<"k">>, PyStr(<<"x">>)>> >>)>>)

\* the data arguments imprint is called with
SampleData == {
    <<>>,
    << <<KeyA, PyNum(1)>> >>,
    << <<KeyB, PyNum(2)>> >>,
    << <<KeyA, PyStr(TrueText)>>, <<KeyB, PyBool(TRUE)>> >>,
    << <<KeyA, Nested>> >>,
    << <<KeyA, PyStr(<<"x", "=", "y">>)>> >>,
    << <<InstanceNode, PyStr(<<"q">>)>>, <<KeyA, PyStr(<<"h", "i">>)>> >>
}

\* the data arguments imprint is called with on a name that does not resolve
GoneData == {<< <<KeyA, PyNum(1)>> >>}

ImprintKeys == {KeyA, KeyB, InstanceNode}
Unset == [t |-> "unset", v |-> 0]

\* data[k] for a key of data (the last item wins, as in a dict literal)
RECURSIVE ItemOf(_, _, _)
ItemOf(data, k, dflt) ==
    IF data = <<>> THEN dflt
    ELSE ItemOf(Tail(data), k, IF data[1][1] = k THEN data[1][2] ELSE dflt)

\* log.after, kept by a read: the call the read came straight after
Untracked == [op |-> "any", node |-> <<>>, data |-> <<>>, ret |-> None]
NoCall ==
    [op |-> "init", node |-> <<>>, data |-> <<>>, ret |-> None,
     after |-> Untracked]

InitCodec ==
    /\ \E buf \in InitialBuffers : props = (Box :> buf)
    /\ base = props
    /\ written = (Box :> [k \in ImprintKeys |-> Unset])
    /\ children = <<>>
    /\ userProp = <<>>
    /\ owner = <<>>
    /\ holding = <<>>
    /\ events = <<>>
    /\ log = NoCall

\* a call imprint(node_name, data)
ImprintCall(node_name, data) ==
    /\ props' = ImprintScene(props, node_name, data)
    /\ written' = IF node_name \notin DOMAIN props THEN written
                  ELSE [written EXCEPT ![node_name] =
                          [k \in ImprintKeys |-> ItemOf(data, k, @[k])]]
    /\ log' = [op |-> "imprint", node |-> node_name, data |-> data,
               ret |-> PyBool(ImprintReturn(props, node_name)),
               after |-> Untracked]
    /\ UNCHANGED <<children, userProp, base, owner, holding, events>>

\* a call read(container) on a node of the scene
ReadCall(name) ==
    /\ log' = [op |-> "read", node |-> name, data |-> <<>>,
               ret |-> Read(name, props[name]),
               after |-> IF log.op = "imprint"
                         THEN [op |-> log.op, node |-> log.node,
                               data |-> log.data, ret |-> log.ret]
                         ELSE Untracked]
    /\ UNCHANGED <<props, children, userProp, base, written, owner,
                     holding, events>>

NextCodec ==
    \/ \E d \in SampleData : ImprintCall(Box, d)
    \/ \E d \in GoneData : ImprintCall(Gone, d)
    \/ \E n \in DOMAIN props : ReadCall(n)

SpecCodec == InitCodec /\ [][NextCodec]_vars

-----------------------------------------------------------------------------
(* unique_namespace *)

COLON == <<":">>

\* format % iteration, for the formats "%d" and "%0<w>d"
PyFormat(format, n) ==
    IF Len(format) = 4 /\ format[1] = "%" /\ format[2] = "0"
       /\ format[3] \in DigitSet /\ format[4] = "d"
    THEN LET digits == IntText(n)
             pad == DigitValue(format[3]) - Len(digits)
         IN  [i \in 1..(IF pad > 0 THEN pad ELSE 0) |-> "0"] \o digits
    ELSE IntText(n)

\* current_namespace(): the namespace with a trailing ":"
CurrentNamespace(namespace) ==
    IF EndsWith(namespace, COLON) THEN namespace ELSE namespace \o COLON

\* the markers kept before the namespace is stripped
NsStart(namespace) == IF StartsWith(namespace, COLON) THEN COLON ELSE <<>>
NsEnd(namespace) == IF EndsWith(namespace, COLON) THEN COLON ELSE <<>>

\* the namespace after strip(":") and rsplit(":", 1): the nesting that is
\* not made unique, the leaf that is, and start and ROOT as the loop finds
\* them.  ROOT is assigned and never read.
NsParts(namespace) ==
    LET stripped == StripChars(namespace, {":"})
        cut == RFind(stripped, ":", Len(stripped))
        root0 == IF StartsWith(namespace, COLON) THEN COLON
                 ELSE CurrentNamespace(namespace)
        start0 == NsStart(namespace)
        start1 == start0 \o SubSeq(stripped, 1, cut - 1) \o COLON
    IN  IF cut = 0
        THEN [leaf |-> stripped, start |-> start0, ROOT |-> root0]
        ELSE [leaf |-> From(stripped, cut + 1), start |-> start1,
              ROOT |-> root0 \o start1]

\* mutant of ContainerName: the probe leaves out con_suffix
ContainerNameBare(unique, leaf, con_suffix) == unique \o COLON \o leaf

\* container_name, the node the loop looks up
ContainerName(unique, leaf, con_suffix) ==
    unique \o COLON \o leaf \o con_suffix

\* mutant of NameSpace: the trailing ":" is not put back
NameSpaceOpenEnded(start, unique, end) == start \o unique

\* name_space, the string returned
NameSpace(start, unique, end) == start \o unique \o end

\* the while loop from `iteration` on, over the names rt.getNodeByName
\* resolves: the namespace returned and the container name found free
RECURSIVE NsSearch(_, _, _, _, _, _, _, _)

\* a loop that looks up the namespace itself instead of the container name
NsSearchByNamespace(names, start, leaf, end, format, prefix, suffix_con, iteration) ==
    LET nr_namespace == leaf \o PyFormat(format, iteration)
        unique == prefix \o nr_namespace \o suffix_con[1]
    IN  IF unique \notin names
        THEN [name_space |-> NameSpace(start, unique, end),
              container_name |-> ContainerName(unique, leaf, suffix_con[2])]
        ELSE NsSearch(names, start, leaf, end, format, prefix, suffix_con,
                      iteration + 1)

NsSearch(names, start, leaf, end, format, prefix, suffix_con, iteration) ==
    LET nr_namespace == leaf \o PyFormat(format, iteration)
        unique == prefix \o nr_namespace \o suffix_con[1]
        container_name == ContainerName(unique, leaf, suffix_con[2])
    IN  IF container_name \notin names
        THEN [name_space |-> NameSpace(start, unique, end),
              container_name |-> container_name]
        ELSE NsSearch(names, start, leaf, end, format, prefix, suffix_con,
                      iteration + 1)

\* unique_namespace(namespace, format, prefix, suffix, con_suffix), args a
\* record of the five arguments
UniqueNamespace(names, args) ==
    LET parts == NsParts(args.namespace)
    IN  NsSearch(names, parts.start, parts.leaf, NsEnd(args.namespace),
                 args.format, args.prefix, <<args.suffix, args.con_suffix>>, 1)

-----------------------------------------------------------------------------
(* The allocator's state machine: callers ask for a namespace and then     *)
(* create the master container that was found free; nodes get deleted.     *)

MaxNodes == 3      \* master containers in the scene at a time

CON == <<"C", "O", "N">>
Fmt02 == <<"%", "0", "2", "d">>
FmtPlain == <<"%", "d">>
NsArgs(ns, f, p, x) ==
    [namespace |-> ns, format |-> f, prefix |-> p, suffix |-> x,
     con_suffix |-> CON]

BarNs == <<"b", "a", "r">>
BarEndNs == <<"b", "a", "r", ":">>
HelloNs == <<":", "h", "e", "l", "l", "o">>
RootXNs == <<":", "x">>
NestedXNs == <<":", "a", ":", "x">>
NestedYNs == <<":", "a", ":", "y">>

\* the calls made
SampleCalls == {
    NsArgs(BarNs, Fmt02, <<>>, <<>>),
    NsArgs(BarEndNs, Fmt02, <<>>, <<"_", "N", "S">>),
    NsArgs(HelloNs, Fmt02, <<>>, <<>>),
    NsArgs(RootXNs, Fmt02, <<>>, <<>>),
    NsArgs(NestedXNs, Fmt02, <<>>, <<>>),
    NsArgs(NestedYNs, FmtPlain, <<"p", "_">>, <<>>)
}

InitNamespace ==
    /\ props = <<>>
    /\ base = <<>>
    /\ written = <<>>
    /\ children = <<>>
    /\ userProp = <<>>
    /\ owner = <<>>
    /\ holding = <<>>
    /\ events = <<>>
    /\ log = NoCall

Without(f, k) == [j \in DOMAIN f \ {k} |-> f[j]]

\* a call unique_namespace(...): the scene is only read
UniqueNamespaceCall(args) ==
    LET found == UniqueNamespace(DOMAIN props, args)
    IN  /\ log' = [op |-> "unique_namespace", node |-> found.container_name,
                   data |-> args, ret |-> found.name_space,
                   after |-> Untracked]
        /\ UNCHANGED <<props, children, userProp, base, written, owner,
                     holding, events>>

\* the caller of unique_namespace creates the master container it found free
CreateMaster ==
    /\ log.op = "unique_namespace"
    /\ Cardinality(DOMAIN props) < MaxNodes
    /\ props' = props @@ (log.node :> <<>>)
    /\ owner' = owner @@ (log.node :> log.ret)
    /\ log' = [op |-> "create", node |-> log.node, data |-> log.data,
               ret |-> log.ret, after |-> Untracked]
    /\ UNCHANGED <<children, userProp, base, written, holding, events>>

\* a node is deleted from the scene
DeleteNode(name) ==
    /\ props' = Without(props, name)
    /\ owner' = Without(owner, name)
    /\ log' = [op |-> "delete", node |-> name, data |-> <<>>,
               ret |-> None, after |-> Untracked]
    /\ UNCHANGED <<children, userProp, base, written, holding, events>>

NextNamespace ==
    \/ \E args \in SampleCalls : UniqueNamespaceCall(args)
    \/ CreateMaster
    \/ \E name \in DOMAIN props : DeleteNode(name)

SpecNamespace == InitNamespace /\ [][NextNamespace]_vars

-----------------------------------------------------------------------------
(* Callers of the allocator.  A caller asks for a namespace, holds it, and *)
(* then creates the master container named after it.  The host runs one    *)
(* call at a time, so a call is one step; what may come between a caller's *)
(* call and its creation is another caller's step.                         *)

MaxCalls == 3      \* calls of unique_namespace in a run

Callers == {"A", "B"}

Idle == [pc |-> "idle", args |-> NsArgs(<<>>, <<>>, <<>>, <<>>),
         name_space |-> <<>>]

\* the name a caller gives the master container of the namespace it was
\* handed: the numbered last segment, ":", the leaf asked for, con_suffix
MasterOf(args, name_space) ==
    LET own == Split(StripChars(name_space, {":"}), COLON)
        asked == Split(StripChars(args.namespace, {":"}), COLON)
    IN  own[Len(own)] \o COLON \o asked[Len(asked)] \o args.con_suffix

\* a master container the scene may hold from the start: bar02:barCON
Bar02 == <<"b", "a", "r", "0", "2">>
StartingScenes == {<<>>, (ContainerName(Bar02, BarNs, CON) :> <<>>)}

InitCallers ==
    /\ props \in StartingScenes
    /\ owner = [n \in DOMAIN props |-> Bar02]
    /\ base = <<>>
    /\ written = <<>>
    /\ children = <<>>
    /\ userProp = <<>>
    /\ log = NoCall
    /\ holding = [c \in Callers |-> Idle]
    /\ events = <<>>

CallsMade == Cardinality({i \in 1..Len(events) : events[i].op = "call"})

\* a call that also makes the node it found free
CallerCallReserving(who, args) ==
    LET found == UniqueNamespace(DOMAIN props, args)
    IN  /\ holding[who].pc = "idle"
        /\ CallsMade < MaxCalls
        /\ holding' = [holding EXCEPT ![who] =
                [pc |-> "holding", args |-> args,
                 name_space |-> found.name_space]]
        /\ events' = Append(events,
                [op |-> "call", who |-> who, args |-> args,
                 name_space |-> found.name_space, seen |-> DOMAIN props])
        /\ log' = [op |-> "unique_namespace", node |-> found.container_name,
                   data |-> args, ret |-> found.name_space,
                   after |-> Untracked]
        /\ props' = props @@ (found.container_name :> <<>>)
        /\ UNCHANGED <<children, userProp, base, written, owner>>

\* caller `who` calls unique_namespace(...): the scene is only read
CallerCall(who, args) ==
    LET found == UniqueNamespace(DOMAIN props, args)
    IN  /\ holding[who].pc = "idle"
        /\ CallsMade < MaxCalls
        /\ holding' = [holding EXCEPT ![who] =
                [pc |-> "holding", args |-> args,
                 name_space |-> found.name_space]]
        /\ events' = Append(events,
                [op |-> "call", who |-> who, args |-> args,
                 name_space |-> found.name_space, seen |-> DOMAIN props])
        /\ log' = [op |-> "unique_namespace", node |-> found.container_name,
                   data |-> args, ret |-> found.name_space,
                   after |-> Untracked]
        /\ UNCHANGED <<props, children, userProp, base, written, owner>>

\* caller `who` creates the master container of the namespace it holds; a
\* node of that name may exist already, the scene then holds the name still
CallerCreate(who) ==
    LET mine == holding[who]
        name == MasterOf(mine.args, mine.name_space)
    IN  /\ mine.pc = "holding"
        /\ props' = props @@ (name :> <<>>)
        /\ owner' = owner @@ (name :> mine.name_space)
        /\ holding' = [holding EXCEPT ![who] = Idle]
        /\ events' = Append(events,
                [op |-> "create", who |-> who, args |-> mine.args,
                 name_space |-> mine.name_space, seen |-> DOMAIN props])
        /\ log' = [op |-> "create", node |-> name, data |-> mine.args,
                   ret |-> mine.name_space, after |-> Untracked]
        /\ UNCHANGED <<children, userProp, base, written>>

\* one caller: every call is followed by the creation before the next call
NextSequential ==
    \/ \E args \in SampleCalls : CallerCall("A", args)
    \/ CallerCreate("A")

SpecSequential == InitCallers /\ [][NextSequential]_vars

\* the calls of the racing callers
RacingCalls == {
    NsArgs(BarNs, Fmt02, <<>>, <<>>),
    NsArgs(RootXNs, Fmt02, <<>>, <<>>),
    NsArgs(NestedXNs, Fmt02, <<>>, <<>>)
}

\* two callers, their steps interleaved in any order
NextRacing ==
    \/ \E who \in Callers, args \in RacingCalls : CallerCall(who, args)
    \/ \E who \in Callers : CallerCreate(who)

SpecRacing == InitCallers /\ [][NextRacing]_vars

-----------------------------------------------------------------------------
(* lsattr *)

\* output_node(node, nodes): the node, then each child's subtree in turn
RECURSIVE OutputNode(_, _)
RECURSIVE OutputChildren(_, _, _)

\* a traversal that lists a node after the subtrees of its children
OutputNodeChildrenFirst(tree, node) ==
    OutputChildren(tree, tree[node], 1) \o <<node>>

OutputNode(tree, node) == <<node>> \o OutputChildren(tree, tree[node], 1)

OutputChildren(tree, kids, i) ==
    IF i > Len(kids) THEN <<>>
    ELSE OutputNode(tree, kids[i]) \o OutputChildren(tree, kids, i + 1)

\* the two list comprehensions of lsattr over the nodes collected
RECURSIVE Matching(_, _, _)
Matching(got, nodes, value) ==
    IF nodes = <<>> THEN <<>>
    ELSE (IF PyEq(got[Head(nodes)], value) THEN <<Head(nodes)>> ELSE <<>>)
         \o Matching(got, Tail(nodes), value)

RECURSIVE Having(_, _)
Having(got, nodes) ==
    IF nodes = <<>> THEN <<>>
    ELSE (IF Truthy(got[Head(nodes)]) THEN <<Head(nodes)>> ELSE <<>>)
         \o Having(got, Tail(nodes))

RootNode == <<"r", "o", "o", "t">>

\* lsattr(attr, value, root): tree is the scene's parent-children relation,
\* got[n] what rt.GetUserProp(n, attr) yields; value and root are None when
\* omitted
Lsattr(tree, got, value, root) ==
    LET top == IF root.t = "none" THEN RootNode ELSE root.v
        nodes == OutputNode(tree, top)
    IN  IF Truthy(value) THEN Matching(got, nodes, value)
        ELSE Having(got, nodes)

-----------------------------------------------------------------------------
(* The scanner's state machine: a scene tree whose nodes carry, or do not  *)
(* carry, the attribute; then any sequence of lsattr calls.                *)

MaxTreeNodes == 3      \* nodes of the scene below the root

NodeName(i) == IF i = 0 THEN RootNode ELSE <<"n", DigitChars[i + 1]>>

\* the numbers of S in rising order, or in falling order
RECURSIVE Ordered(_, _)
Ordered(S, rising) ==
    IF S = {} THEN <<>>
    ELSE LET m == CHOOSE x \in S :
                    \A y \in S : IF rising THEN x <= y ELSE x >= y
         IN  <<NodeName(m)>> \o Ordered(S \ {m}, rising)

\* the children relation of the tree in which node i hangs under parent[i]
TreeOf(parent, rising) ==
    [name \in {NodeName(i) : i \in 0..MaxTreeNodes} |->
        Ordered({i \in 1..MaxTreeNodes : NodeName(parent[i]) = name}, rising)]

Parents ==
    {p \in [1..MaxTreeNodes -> 0..MaxTreeNodes] :
        \A i \in 1..MaxTreeNodes : p[i] < i}

\* what rt.GetUserProp yields: undefined, an empty text, a text
AttrValues == {None, PyStr(<<>>), PyStr(<<"a">>)}

\* the value arguments of the calls: omitted, "", "a", "b"
MatchValues == {None, PyStr(<<>>), PyStr(<<"a">>), PyStr(<<"b">>)}

InitScan ==
    /\ \E p \in Parents, rising \in BOOLEAN : children = TreeOf(p, rising)
    /\ userProp \in [{NodeName(i) : i \in 0..MaxTreeNodes} -> AttrValues]
    /\ props = <<>>
    /\ base = <<>>
    /\ written = <<>>
    /\ owner = <<>>
    /\ holding = <<>>
    /\ events = <<>>
    /\ log = NoCall

\* a call lsattr(attr, value, root)
LsattrCall(value, root) ==
    /\ log' = [op |-> "lsattr", node |-> root, data |-> value,
               ret |-> Lsattr(children, userProp, value, root),
               after |-> Untracked]
    /\ UNCHANGED <<props, children, userProp, base, written, owner,
                     holding, events>>

NextScan ==
    \E value \in MatchValues,
       root \in {None} \cup {PyStr(n) : n \in DOMAIN children \ {RootNode}} :
        LsattrCall(value, root)

SpecScan == InitScan /\ [][NextScan]_vars

-----------------------------------------------------------------------------
(* Claims about the codec, checked under SpecCodec *)

\* the number of times the character c occurs in s
Count(s, c) == Cardinality({i \in 1..Len(s) : s[i] = c})

\* the lines of the buffer the last read decoded
LinesRead == BufferLines(props[log.node])
KeyPart(line) == SubSeq(line, 1, RFind(line, "=", Len(line)) - 1)
ValuePart(line) == From(line, RFind(line, "=", Len(line)) + 1)

\* a read that came straight after a successful imprint on the same node
ReadAfterImprint ==
    /\ log.op = "read"
    /\ log.after.op = "imprint"
    /\ log.after.node = log.node
    /\ log.after.ret.v

\* the values the round trip is claimed for: not the texts true and false
Claimed(x) == ~(x.t = "str" /\ x.v \in {TrueText, FalseText})

\* the values that do come back as they went in
Portable(x) ==
    \/ x.t = "bool"
    \/ /\ x.t = "str"
       /\ x.v \notin {TrueText, FalseText}
       /\ Count(x.v, "=") = 0
       /\ Strip(x.v) = x.v
       /\ ~StartsWith(x.v, JSON_PREFIX)
    \/ /\ x.t \in {"list", "dict"}
       /\ Count(Dumps(x), "=") = 0

\* C1 as stated: after imprint(node, M), read(node) holds every key of M
\* other than instance_node with exactly the value M gave it, for values
\* that are strings other than "true"/"false", numbers, booleans or nested.
C1_RoundTripAll ==
    ReadAfterImprint =>
        \A i \in 1..Len(log.after.data) :
            LET k == log.after.data[i][1]
                x == log.after.data[i][2]
            IN  (k # InstanceNode /\ Claimed(x)) =>
                    (k \in DOMAIN log.ret /\ log.ret[k] = x)

\* C1 amended: after imprint(node, M), read(node) holds every key of M other
\* than instance_node; a boolean, a nested value whose JSON text has no "=",
\* and a string that has no "=", no surrounding whitespace, no JSON:: prefix
\* and is not "true"/"false" come back exactly; a number comes back as its
\* decimal text.
C1_RoundTrip ==
    ReadAfterImprint =>
        \A i \in 1..Len(log.after.data) :
            LET k == log.after.data[i][1]
                x == log.after.data[i][2]
            IN  k # InstanceNode =>
                    /\ Portable(x) => (k \in DOMAIN log.ret /\ log.ret[k] = x)
                    /\ x.t = "num" =>
                          (k \in DOMAIN log.ret /\ log.ret[k] = PyStr(IntText(x.v)))

C1_Witness ==
    /\ ReadAfterImprint
    /\ log.after.data = << <<KeyA, Nested>> >>
    /\ log.ret[KeyA] = Nested

\* what read yields for key k when a value x was imprinted on an empty buffer
AloneReadsAs(k, x) == DictGet(Read(log.node, ImprintItem(<<>>, k, x)), k)

\* C2: merge semantics.  After any sequence of imprint calls, a read yields
\* for each key what the most recent imprint holding that key gave it, and
\* for every key no imprint held what the buffer started with.
C2_Merge ==
    log.op = "read" =>
        LET start == Read(log.node, base[log.node])
        IN  \A k \in (DOMAIN log.ret \cup DOMAIN start \cup ImprintKeys)
                        \ {InstanceNode} :
                IF k \in ImprintKeys /\ written[log.node][k].t # "unset"
                THEN DictGet(log.ret, k) = AloneReadsAs(k, written[log.node][k])
                ELSE DictGet(log.ret, k) = DictGet(start, k)

C2_Witness ==
    /\ log.op = "read"
    /\ written[Box][KeyA] = PyNum(1)
    /\ written[Box][KeyB] = PyNum(2)
    /\ log.after.data = << <<KeyB, PyNum(2)>> >>
    /\ {KeyA, KeyB} \subseteq DOMAIN log.ret

\* C6 as stated: whatever the buffer holds, empty included, read's result
\* has the key instance_node, and its value is the container's name.
C6_InstanceNodeAlways ==
    log.op = "read" =>
        /\ InstanceNode \in DOMAIN log.ret
        /\ log.ret[InstanceNode] = PyStr(log.node)

\* C6 amended: for every non-empty buffer, one holding an instance_node line
\* included, read's result has instance_node equal to the container's name;
\* for an empty buffer read returns the empty mapping.
C6_InstanceNode ==
    log.op = "read" =>
        IF props[log.node] = <<>>
        THEN log.ret = EmptyDict
        ELSE /\ InstanceNode \in DOMAIN log.ret
             /\ log.ret[InstanceNode] = PyStr(log.node)

C6_Witness ==
    /\ log.op = "read"
    /\ \E i \in 1..Len(LinesRead) :
          Count(LinesRead[i], "=") = 1 /\ KeyPart(LinesRead[i]) = InstanceNode
    /\ log.ret[InstanceNode] = PyStr(Box)

\* a line with one "=" whose trimmed value carries the marker and whose
\* remainder is not JSON
BadJsonLine(line) ==
    /\ Count(line, "=") = 1
    /\ StartsWith(Strip(ValuePart(line)), JSON_PREFIX)
    /\ ~Loads(From(Strip(ValuePart(line)), Len(JSON_PREFIX) + 1)).ok

\* C7 as stated: a line whose marked value is not valid JSON is dropped, its
\* key is not in read's result.
C7_BadJsonDropped ==
    log.op = "read" =>
        \A i \in 1..Len(LinesRead) :
            BadJsonLine(LinesRead[i]) =>
                Strip(KeyPart(LinesRead[i])) \notin DOMAIN log.ret

\* C7 amended: a line whose marked value is not valid JSON is kept: its key
\* maps to the trimmed text of the value, marker included; the other lines
\* with one "=" are decoded as well.
C7_BadJsonKept ==
    log.op = "read" =>
        \A i \in 1..Len(LinesRead) :
            LET line == LinesRead[i]
                k == Strip(KeyPart(line))
            IN  /\ (BadJsonLine(line) /\ k # InstanceNode) =>
                      (k \in DOMAIN log.ret
                        /\ log.ret[k] = PyStr(Strip(ValuePart(line))))
                /\ Count(line, "=") = 1 => k \in DOMAIN log.ret

C7_Witness ==
    /\ log.op = "read"
    /\ Len(LinesRead) >= 2
    /\ \E i \in 1..Len(LinesRead) : BadJsonLine(LinesRead[i])
    /\ \E i \in 1..Len(LinesRead) :
          Count(LinesRead[i], "=") = 1 /\ ~BadJsonLine(LinesRead[i])

\* C8: read skips every line that does not hold exactly one "=" and decodes
\* all the others: the keys of the result of a non-empty buffer are those of
\* the lines with exactly one "=", and instance_node.
C8_SkipsMalformed ==
    (log.op = "read" /\ props[log.node] # <<>>) =>
        DOMAIN log.ret =
            {InstanceNode} \cup
            {Strip(KeyPart(LinesRead[i])) :
                i \in {j \in 1..Len(LinesRead) : Count(LinesRead[j], "=") = 1}}

C8_Witness ==
    /\ log.op = "read"
    /\ Len(LinesRead) = 2
    /\ Count(LinesRead[1], "=") = 0
    /\ Count(LinesRead[2], "=") = 1
    /\ DOMAIN log.ret = {InstanceNode, Strip(KeyPart(LinesRead[2]))}

\* C9 as stated: the boolean rule is for values without the marker only: such
\* a value reads as True for "true", False for "false" and as its trimmed
\* text otherwise; a marked value that parses reads as exactly the parsed
\* JSON value.
C9_BooleanRuleUnmarkedOnly ==
    log.op = "read" =>
        \A i \in 1..Len(LinesRead) :
            LET line == LinesRead[i]
                k == Strip(KeyPart(line))
                text == Strip(ValuePart(line))
                parsed == Loads(From(text, Len(JSON_PREFIX) + 1))
            IN  (Count(line, "=") = 1 /\ k # InstanceNode) =>
                    IF StartsWith(text, JSON_PREFIX)
                    THEN parsed.ok => log.ret[k] = parsed.val
                    ELSE log.ret[k] =
                            IF text = TrueText THEN PyBool(TRUE)
                            ELSE IF text = FalseText THEN PyBool(FALSE)
                            ELSE PyStr(text)

-----------------------------------------------------------------------------
(* Claims about unique_namespace, checked under SpecNamespace.  The state  *)
(* right after a call still holds the scene the call saw.                  *)

\* the segments of the requested namespace between its ":" tokens
Segments(namespace) == Split(StripChars(namespace, {":"}), COLON)
LeafOf(namespace) == Segments(namespace)[Len(Segments(namespace))]
ParentsOf(namespace) ==
    LET segs == Segments(namespace)
    IN  IF Len(segs) = 1 THEN <<>>
        ELSE Join(SubSeq(segs, 1, Len(segs) - 1), COLON) \o COLON

\* "{prefix}{leaf}{format % i}{suffix}"
Numbered(args, i) ==
    args.prefix \o LeafOf(args.namespace) \o PyFormat(args.format, i)
    \o args.suffix

\* "{prefix}{leaf}{format % i}{suffix}:{leaf}{con_suffix}"
MasterName(args, i) ==
    Numbered(args, i) \o COLON \o LeafOf(args.namespace) \o args.con_suffix

\* start + parents + prefix + leaf + format % i + suffix + end
Shaped(args, i) ==
    (IF args.namespace[1] = ":" THEN COLON ELSE <<>>)
    \o ParentsOf(args.namespace)
    \o Numbered(args, i)
    \o (IF args.namespace[Len(args.namespace)] = ":" THEN COLON ELSE <<>>)

Iterations == 1..(Cardinality(DOMAIN props) + 1)

\* C3: the namespace returned carries the lowest unused number: for the
\* returned iteration i no node with the master container's name for i
\* exists at the call, and one exists for every j with 1 <= j < i.
C3_LowestUnused ==
    log.op = "unique_namespace" =>
        \E i \in Iterations :
            /\ log.ret = Shaped(log.data, i)
            /\ MasterName(log.data, i) \notin DOMAIN props
            /\ \A j \in 1..(i - 1) : MasterName(log.data, j) \in DOMAIN props

\* bar01:barCON and bar02:barCON exist, unique_namespace("bar") gives bar03
C3_Witness ==
    /\ log.op = "unique_namespace"
    /\ log.data = NsArgs(BarNs, Fmt02, <<>>, <<>>)
    /\ {MasterName(log.data, 1), MasterName(log.data, 2)} \subseteq DOMAIN props
    /\ log.ret = <<"b", "a", "r", "0", "3">>

\* the scope a namespace lies in: all of it up to its last segment
ScopeOf(namespace) ==
    LET s == RStrip(namespace, {":"})
    IN  SubSeq(s, 1, RFind(s, ":", Len(s)))

\* the nodes that are master containers of the scope the call asks for, or
\* no master container at all
InScope(args) ==
    {n \in DOMAIN props : ScopeOf(owner[n]) = ScopeOf(args.namespace)}

\* C4 as stated: the search is scoped to the parent namespace of the
\* request: the namespace returned is the same whether or not master
\* containers of other scopes (a sibling, a same-named leaf elsewhere) exist.
C4_ScopedSearch ==
    log.op = "unique_namespace" =>
        log.ret = UniqueNamespace(InScope(log.data), log.data).name_space

\* C5: the string returned is start + parents + prefix + leaf + number +
\* suffix + end: the leading and the trailing ":" are put back exactly when
\* the input had them, the parent segments pass through, and only the last
\* segment is numbered; with nothing in the scene the docstring's examples
\* come out as written.
C5_Shape ==
    log.op = "unique_namespace" =>
        /\ \E i \in Iterations : log.ret = Shaped(log.data, i)
        /\ DOMAIN props = {} =>
            /\ log.data = NsArgs(BarNs, Fmt02, <<>>, <<>>)
                  => log.ret = <<"b", "a", "r", "0", "1">>
            /\ log.data = NsArgs(BarEndNs, Fmt02, <<>>, <<"_", "N", "S">>)
                  => log.ret = <<"b", "a", "r", "0", "1", "_", "N", "S", ":">>
            /\ log.data = NsArgs(NestedXNs, Fmt02, <<>>, <<>>)
                  => log.ret = <<":", "a", ":", "x", "0", "1">>
            /\ log.data = NsArgs(HelloNs, Fmt02, <<>>, <<>>)
                  => log.ret = <<":", "h", "e", "l", "l", "o", "0", "1">>
            /\ log.data = NsArgs(NestedYNs, FmtPlain, <<"p", "_">>, <<>>)
                  => log.ret = <<":", "a", ":", "p", "_", "y", "1">>

\* "bar:" with suffix "_NS", a number past the first
C5_Witness ==
    /\ log.op = "unique_namespace"
    /\ log.data = NsArgs(BarEndNs, Fmt02, <<>>, <<"_", "N", "S">>)
    /\ log.ret = <<"b", "a", "r", "0", "2", "_", "N", "S", ":">>

-----------------------------------------------------------------------------
(* Claims about lsattr, checked under SpecScan *)

\* C10 as stated: whenever a value is given, an empty one included, the
\* result holds only nodes whose attribute equals that value.
C10_FiltersWheneverGiven ==
    (log.op = "lsattr" /\ log.data.t # "none") =>
        \A i \in 1..Len(log.ret) : PyEq(userProp[log.ret[i]], log.data)

\* the parent of a node and its place among the children of that parent
HasParent(tree, n) ==
    \E p \in DOMAIN tree : \E i \in 1..Len(tree[p]) : tree[p][i] = n
ParentIn(tree, n) ==
    CHOOSE p \in DOMAIN tree : \E i \in 1..Len(tree[p]) : tree[p][i] = n
PlaceIn(tree, n) ==
    CHOOSE i \in 1..Len(tree[ParentIn(tree, n)]) :
        tree[ParentIn(tree, n)][i] = n

\* n is top or lies below it
RECURSIVE IsUnder(_, _, _)
IsUnder(tree, top, n) ==
    \/ n = top
    \/ HasParent(tree, n) /\ IsUnder(tree, top, ParentIn(tree, n))

\* the places passed on the way from top down to n
RECURSIVE PathFrom(_, _, _)
PathFrom(tree, top, n) ==
    IF n = top THEN <<>>
    ELSE PathFrom(tree, top, ParentIn(tree, n)) \o <<PlaceIn(tree, n)>>

\* depth-first pre-order: a node comes before the nodes below it, and a
\* branch before the branches after it
ComesBefore(p, q) ==
    \E k \in 1..Len(q) :
        /\ \A j \in 1..(k - 1) : j <= Len(p) /\ p[j] = q[j]
        /\ k = Len(p) + 1 \/ (k <= Len(p) /\ p[k] < q[k])

\* the node a call starts from
TopOf(root) == IF root.t = "none" THEN RootNode ELSE root.v

NonEmpty(v) == v.t # "none" /\ v.v # <<>>

\* ret lists exactly the nodes of S, each once, in pre-order from top
ListsInPreOrder(ret, S, top) ==
    /\ {ret[i] : i \in 1..Len(ret)} = S
    /\ Len(ret) = Cardinality(S)
    /\ \A i, j \in 1..Len(ret) :
            i < j => ComesBefore(PathFrom(children, top, ret[i]),
                                 PathFrom(children, top, ret[j]))

\* C11 as stated: with no value given, the result is, each once and in
\* depth-first pre-order, exactly the descendants of the root that carry the
\* attribute with a non-empty value, and it is empty when the root has no
\* children.
C11_DescendantsOnly ==
    (log.op = "lsattr" /\ log.data.t = "none") =>
        LET top == TopOf(log.node)
        IN  /\ ListsInPreOrder(log.ret,
                    {n \in DOMAIN children :
                        /\ n # top
                        /\ IsUnder(children, top, n)
                        /\ NonEmpty(userProp[n])}, top)
            /\ children[top] = <<>> => log.ret = <<>>

\* C11: with no value given, the result is, each once and in depth-first
\* pre-order, exactly the nodes of the subtree the call starts from, the
\* starting node itself included, that carry the attribute with a non-empty
\* value; the nodes returned do not depend on the order of the branches.
C11_SubtreePreOrder ==
    (log.op = "lsattr" /\ log.data.t = "none") =>
        ListsInPreOrder(log.ret,
            {n \in DOMAIN children :
                /\ IsUnder(children, TopOf(log.node), n)
                /\ NonEmpty(userProp[n])}, TopOf(log.node))

\* root > (n1 > n3, n2): the root, n1 and n3 carry the attribute, n2 does not
C11_Witness ==
    /\ log.op = "lsattr"
    /\ log.data.t = "none"
    /\ log.node.t = "none"
    /\ children[RootNode] = <<NodeName(1), NodeName(2)>>
    /\ children[NodeName(1)] = <<NodeName(3)>>
    /\ ~NonEmpty(userProp[NodeName(2)])
    /\ log.ret = <<RootNode, NodeName(1), NodeName(3)>>

-----------------------------------------------------------------------------
(* Claims about the callers of unique_namespace *)

\* the places in the history where unique_namespace was called
CallEvents == {i \in 1..Len(events) : events[i].op = "call"}

\* the numbers a call of the history can have come to
Numbers == 1..(Len(events) + 2)

\* the number in the namespace the i-th event returned, 0 if it has none
NumberAt(i) ==
    IF \E n \in Numbers : events[i].name_space = Shaped(events[i].args, n)
    THEN CHOOSE n \in Numbers :
            events[i].name_space = Shaped(events[i].args, n)
    ELSE 0

\* C12: one caller, each call followed by the creation of the master
\* container before the next call: calls with the same arguments return
\* pairwise distinct namespaces with strictly increasing numbers, and the
\* master container of a returned namespace did not exist at the call.
C12_SequentialDistinct ==
    /\ \A i \in CallEvents :
            /\ NumberAt(i) > 0
            /\ MasterName(events[i].args, NumberAt(i)) \notin events[i].seen
    /\ \A i, j \in CallEvents :
            (i < j /\ events[i].args = events[j].args) =>
                /\ events[i].name_space # events[j].name_space
                /\ NumberAt(i) < NumberAt(j)

\* three calls for "bar" on an empty scene, each followed by the creation:
\* bar01, bar02, bar03
C12_Witness ==
    /\ Len(events) = 6
    /\ \A i \in 1..6 : events[i].args = NsArgs(BarNs, Fmt02, <<>>, <<>>)
    /\ events[1].seen = {}
    /\ events[1].name_space = <<"b", "a", "r", "0", "1">>
    /\ events[3].name_space = <<"b", "a", "r", "0", "2">>
    /\ events[5].name_space = <<"b", "a", "r", "0", "3">>
    /\ \A i \in {2, 4, 6} : events[i].op = "create"

\* C13: unique_namespace reserves nothing: a call leaves the scene as it
\* found it, and two calls of different callers with the same arguments and
\* no creation between them return the same namespace.
C13_NothingReserved ==
    \A i, j \in CallEvents :
        ( /\ i < j
          /\ events[i].who # events[j].who
          /\ events[i].args = events[j].args
          /\ \A k \in i..j : events[k].op = "call" ) =>
            /\ events[j].seen = events[i].seen
            /\ events[j].name_space = events[i].name_space

\* both callers have called for "bar", neither has created its master
\* container, and both hold bar01
C13_Witness ==
    /\ holding["A"].pc = "holding"
    /\ holding["B"].pc = "holding"
    /\ holding["A"].args = NsArgs(BarNs, Fmt02, <<>>, <<>>)
    /\ holding["B"].args = holding["A"].args
    /\ holding["A"].name_space = <<"b", "a", "r", "0", "1">>
    /\ holding["B"].name_space = holding["A"].name_space

=============================================================================
